---------------------------- MODULE Spec2Model ----------------------------
(***************************************************************************)
(* A model of src/src/lib.rs: the character grid (ScreenBuffer), the       *)
(* cursor-driven layout scope (Ui) and the two-pass grid (UiGrid).         *)
(*                                                                         *)
(* A usize subtraction that would go below zero and a division by zero do  *)
(* not produce a value: they are recorded in the variable abort, and the   *)
(* render pass stops there.                                                *)
(***************************************************************************)
EXTENDS Integers, Sequences, FiniteSets, TLC

VARIABLES
    cells,   \* ScreenBuffer.cells, row-major; a sequence, so indexed from 1
    stack,   \* the live Ui scopes, innermost last; stack[1] is the root Ui
    abort,   \* "none", or why the render pass stopped
    last,    \* what the last operation was called with and what it returned
    steps    \* number of operations issued so far

vars == <<cells, stack, abort, last, steps>>

(***************************************************************************)
(* Bounds of the model.                                                    *)
(***************************************************************************)
ScreenW == 10
ScreenH == 2
MaxLen == 3
MaxField == 5
MaxBudget == 3
MaxSpacing == 1
MaxPadding == 1
MaxDepth == 3
MaxSteps == 3
MaxAmount == 2
MaxOrigin == 1
MaxQuarters == 10
MaxPrecision == 2
MaxCols == 2
MaxCells == 4
MaxValue == 120

(***************************************************************************)
(* Option<usize>                                                           *)
(***************************************************************************)
None == [some |-> FALSE, val |-> 0]

Some(n) == [some |-> TRUE, val |-> n]

UnwrapOr(o, d) == IF o.some THEN o.val ELSE d

\* usize::checked_sub
CheckedSub(a, b) == IF a >= b THEN Some(a - b) ELSE None

\* usize::saturating_sub
SaturatingSub(a, b) == IF a >= b THEN a - b ELSE 0

Max(a, b) == IF a >= b THEN a ELSE b

Min(a, b) == IF a <= b THEN a ELSE b

RECURSIVE SumSeq(_)
SumSeq(s) == IF s = <<>> THEN 0 ELSE Head(s) + SumSeq(Tail(s))

RECURSIVE Pow10(_)
Pow10(n) == IF n = 0 THEN 1 ELSE 10 * Pow10(n - 1)

Abs(n) == IF n < 0 THEN -n ELSE n

\* Rust's integer division and remainder truncate toward zero.
TruncDiv(a, b) == IF a >= 0 THEN a \div b ELSE -((-a) \div b)

TruncRem(a, b) == a - b * TruncDiv(a, b)

(***************************************************************************)
(* ScreenBuffer                                                            *)
(***************************************************************************)
Blank == " "

Digits == <<"0", "1", "2", "3", "4", "5", "6", "7", "8", "9">>

\* char::from(b'0' + d)
DigitChar(d) == Digits[d + 1]

\* ScreenBuffer::new
NewCells == [k \in 1..(ScreenW * ScreenH) |-> Blank]

\* ScreenBuffer::index, counted from 1
Index(x, y) == y * ScreenW + x + 1

InBounds(x, y) == x >= 0 /\ y >= 0 /\ x < ScreenW /\ y < ScreenH

\* What a reader of cell (x, y) sees; "" stands for a position off the grid.
At(c, x, y) == IF InBounds(x, y) THEN c[Index(x, y)] ELSE ""

\* ScreenBuffer::clear
ClearCells(c) == [k \in DOMAIN c |-> Blank]

\* a put_char that checks only that the index is one of the buffer
PutCharUnclipped(c, x, y, ch) ==
    IF Index(x, y) \in DOMAIN c THEN [c EXCEPT ![Index(x, y)] = ch] ELSE c

\* ScreenBuffer::put_char
PutChar(c, x, y, ch) ==
    IF x >= ScreenW \/ y >= ScreenH THEN c
    ELSE [c EXCEPT ![Index(x, y)] = ch]

\* the loop of write_str from character i on
RECURSIVE WriteStrFrom(_, _, _, _, _)
WriteStrFrom(c, x, y, text, i) ==
    IF i > Len(text) THEN c
    ELSE IF x + (i - 1) >= ScreenW THEN c
    ELSE WriteStrFrom(PutChar(c, x + (i - 1), y, text[i]), x, y, text, i + 1)

\* a write_str that runs on into the next row
WriteStrWrapping(c, x, y, text) ==
    IF y >= ScreenH THEN c
    ELSE [k \in DOMAIN c |->
            IF k >= Index(x, y) /\ k < Index(x, y) + Len(text)
            THEN text[k - Index(x, y) + 1] ELSE c[k]]

\* ScreenBuffer::write_str
WriteStr(c, x, y, text) ==
    IF y >= ScreenH THEN c ELSE WriteStrFrom(c, x, y, text, 1)

\* a field that is not blanked
BlankFieldSkipped(c, x, y, width, from) == c

\* a field whose content moves one cell to the left instead of being blanked
BlankFieldScrolled(c, x, y, width, from) ==
    [k \in DOMAIN c |->
        IF /\ y < ScreenH
           /\ k >= Index(x + from, y)
           /\ k < Index(Min(x + width, ScreenW), y)
        THEN IF k + 1 < Index(Min(x + width, ScreenW), y) THEN c[k + 1] ELSE Blank
        ELSE c[k]]

\* for i in from..width { put_char(x + i, y, ' ') }
RECURSIVE BlankField(_, _, _, _, _)
BlankField(c, x, y, width, from) ==
    IF from >= width THEN c
    ELSE BlankField(PutChar(c, x + from, y, Blank), x, y, width, from + 1)

\* the digit loop of write_i64_right: while value > 0 && pos > x
RECURSIVE I64Digits(_, _, _, _, _)
I64Digits(c, x, y, value, pos) ==
    IF value > 0 /\ pos > x
    THEN I64Digits(PutChar(c, pos - 1, y, DigitChar(value % 10)), x, y,
                   value \div 10, pos - 1)
    ELSE [cells |-> c, pos |-> pos]

\* a write_i64_right that never puts the sign
WriteI64RightUnsigned(c, x, y, value, width) ==
    IF y >= ScreenH THEN c
    ELSE LET blanked == BlankField(c, x, y, width, 0)
         IN  IF value = 0
             THEN IF width > 0 THEN PutChar(blanked, x + width - 1, y, "0")
                  ELSE blanked
             ELSE I64Digits(blanked, x, y, Abs(value), x + width).cells

\* ScreenBuffer::write_i64_right
WriteI64Right(c, x, y, value, width) ==
    IF y >= ScreenH THEN c
    ELSE LET blanked == BlankField(c, x, y, width, 0)
         IN  IF value = 0
             THEN IF width > 0 THEN PutChar(blanked, x + width - 1, y, "0")
                  ELSE blanked
             ELSE LET negative == value < 0
                      v == IF negative THEN -value ELSE value
                      d == I64Digits(blanked, x, y, v, x + width)
                  IN  IF negative /\ d.pos > x
                      THEN PutChar(d.cells, d.pos - 1, y, "-")
                      ELSE d.cells

(***************************************************************************)
(* An i64 of the full range is its sign and the decimal digits of its      *)
(* magnitude, most significant first, <<>> for 0: value % 10 is the last   *)
(* digit and value / 10 drops it.                                          *)
(***************************************************************************)
I64(neg, mag) == [neg |-> neg, mag |-> mag]

\* the digits of 2^63
I64MinMag == <<9, 2, 2, 3, 3, 7, 2, 0, 3, 6, 8, 5, 4, 7, 7, 5, 8, 0, 8>>

\* the digits of 2^63 - 1
I64MaxMag == <<9, 2, 2, 3, 3, 7, 2, 0, 3, 6, 8, 5, 4, 7, 7, 5, 8, 0, 7>>

\* i64::MIN
I64Min == I64(TRUE, I64MinMag)

\* i64::MAX
I64Max == I64(FALSE, I64MaxMag)

\* value = -value overflows for i64::MIN, whose magnitude is no i64
NegationOverflows(v) == v.neg /\ v.mag = I64MinMag

\* the digit loop of write_i64_right on the digits of the value
RECURSIVE I64DigitsWide(_, _, _, _, _)
I64DigitsWide(c, x, y, mag, pos) ==
    IF mag # <<>> /\ pos > x
    THEN I64DigitsWide(PutChar(c, pos - 1, y, DigitChar(mag[Len(mag)])), x, y,
                       SubSeq(mag, 1, Len(mag) - 1), pos - 1)
    ELSE [cells |-> c, pos |-> pos]

\* write_i64_right from "let negative = value < 0" on, for a value whose
\* negation is an i64
I64SignAndDigits(blanked, x, y, v, width) ==
    LET d == I64DigitsWide(blanked, x, y, v.mag, x + width)
    IN  IF v.neg /\ d.pos > x
        THEN PutChar(d.cells, d.pos - 1, y, "-")
        ELSE d.cells

\* write_i64_right of i64::MIN after the field is blanked: with overflow
\* checks the negation panics; without them it wraps to i64::MIN, value > 0
\* is false, no digit is written and the sign is put at pos - 1
I64NegationOverflow(blanked, x, y, width, checks) ==
    IF checks THEN [cells |-> blanked, abort |-> "overflow"]
    ELSE [cells |-> IF x + width > x
                    THEN PutChar(blanked, x + width - 1, y, "-")
                    ELSE blanked,
          abort |-> "none"]

\* ScreenBuffer::write_i64_right on the full range of i64, built with or
\* without overflow checks
WriteI64RightWide(c, x, y, v, width, checks) ==
    IF y >= ScreenH THEN [cells |-> c, abort |-> "none"]
    ELSE IF v.mag = <<>>
    THEN [cells |-> IF width > 0
                    THEN PutChar(BlankField(c, x, y, width, 0), x + width - 1, y, "0")
                    ELSE BlankField(c, x, y, width, 0),
          abort |-> "none"]
    ELSE IF NegationOverflows(v)
    THEN I64NegationOverflow(BlankField(c, x, y, width, 0), x, y, width, checks)
    ELSE [cells |-> I64SignAndDigits(BlankField(c, x, y, width, 0), x, y, v, width),
          abort |-> "none"]

\* the loop of draw_hline from i on; its guard reads x, not x + i
RECURSIVE DrawHlineFrom(_, _, _, _, _, _)
DrawHlineFrom(c, x, y, w, ch, i) ==
    IF i >= w THEN c
    ELSE IF x + 1 >= ScreenW THEN c
    ELSE DrawHlineFrom(PutChar(c, x + i, y, ch), x, y, w, ch, i + 1)

\* ScreenBuffer::draw_hline
DrawHline(c, x, y, w, ch) == DrawHlineFrom(c, x, y, w, ch, 0)

\* the loop of draw_vline from i on; its guard compares y + 1 with self.width
RECURSIVE DrawVlineFrom(_, _, _, _, _, _)
DrawVlineFrom(c, x, y, h, ch, i) ==
    IF i >= h THEN c
    ELSE IF y + 1 >= ScreenW THEN c
    ELSE DrawVlineFrom(PutChar(c, x, y + i, ch), x, y, h, ch, i + 1)

\* ScreenBuffer::draw_vline
DrawVline(c, x, y, h, ch) == DrawVlineFrom(c, x, y, h, ch, 0)

\* the corner glyphs of ScreenBuffer::draw_frame, by name
TopLeft == "tl"

TopRight == "tr"

BottomLeft == "bl"

BottomRight == "br"

\* the four strokes of ScreenBuffer::draw_frame; w - 2 and h - 2 are usize
\* subtractions
DrawFrameStrokes(c, x, y, w, h) ==
    IF w < 2 THEN [cells |-> c, abort |-> "overflow"]
    ELSE LET top == DrawHline(c, x + 1, y, w - 2, "-")
             bottom == DrawHline(top, x + 1, y + h - 1, w - 2, "-")
         IN  IF h < 2 THEN [cells |-> bottom, abort |-> "overflow"]
             ELSE [cells |-> DrawVline(DrawVline(bottom, x, y + 1, h - 2, "|"),
                                       x + w - 1, y + 1, h - 2, "|"),
                   abort |-> "none"]

\* ScreenBuffer::draw_frame; x + w - 1 and y + h - 1 are usize subtractions,
\* evaluated after the top-left corner is put
DrawFrame(c, x, y, w, h) ==
    LET tl == PutChar(c, x, y, TopLeft)
    IN  IF x + w = 0 THEN [cells |-> tl, abort |-> "overflow"]
        ELSE LET tr == PutChar(tl, x + w - 1, y, TopRight)
             IN  IF y + h = 0 THEN [cells |-> tr, abort |-> "overflow"]
                 ELSE DrawFrameStrokes(
                          PutChar(PutChar(tr, x, y + h - 1, BottomLeft),
                                  x + w - 1, y + h - 1, BottomRight),
                          x, y, w, h)

(***************************************************************************)
(* An f64 argument is a dyadic rational num / den with den a power of two  *)
(* and small num, so that it is an f64 exactly and value * scale is        *)
(* computed without rounding error.                                        *)
(***************************************************************************)
F64(num, den) == [num |-> num, den |-> den]

\* f64::round of n / d (d > 0): to the nearest integer, ties away from zero
RoundF64(n, d) ==
    IF n >= 0 THEN (2 * n + d) \div (2 * d)
    ELSE -((2 * (-n) + d) \div (2 * d))

\* the fractional-digit loop of write_f64_right; returned is the early return
RECURSIVE F64FractDigits(_, _, _, _, _, _)
F64FractDigits(c, x, y, fract, pos, left) ==
    IF left = 0 THEN [cells |-> c, pos |-> pos, returned |-> FALSE]
    ELSE IF pos <= x THEN [cells |-> c, pos |-> pos, returned |-> TRUE]
    ELSE F64FractDigits(PutChar(c, pos - 1, y, DigitChar(fract % 10)), x, y,
                        fract \div 10, pos - 1, left - 1)

\* an integer-digit loop that stops at the edge of the grid, not of the field
F64IntDigitsUnclipped(c, x, y, v, pos) ==
    IF v > 0 /\ pos > 0
    THEN [cells |-> PutChar(c, pos - 1, y, DigitChar(v % 10)), pos |-> pos - 1]
    ELSE [cells |-> c, pos |-> pos]

\* the integer-digit loop of write_f64_right: while v > 0 && pos > x
RECURSIVE F64IntDigits(_, _, _, _, _)
F64IntDigits(c, x, y, v, pos) ==
    IF v > 0 /\ pos > x
    THEN F64IntDigits(PutChar(c, pos - 1, y, DigitChar(v % 10)), x, y,
                      v \div 10, pos - 1)
    ELSE [cells |-> c, pos |-> pos]

\* let scaled = (value * scale as f64).round() as i64
F64Scaled(value, precision) == RoundF64(value.num * Pow10(precision), value.den)

\* ScreenBuffer::write_f64_right
WriteF64Right(c, x, y, value, width, precision) ==
    IF y >= ScreenH THEN c
    ELSE LET scale == Pow10(precision)
             scaled == F64Scaled(value, precision)
             int_part == TruncDiv(scaled, scale)
             fract_part == Abs(TruncRem(scaled, scale))
             blanked == BlankField(c, x, y, width, 0)
             f == F64FractDigits(blanked, x, y, fract_part, x + width, precision)
         IN  IF f.returned THEN f.cells
             ELSE LET p == IF precision > 0 /\ f.pos > x
                           THEN [cells |-> PutChar(f.cells, f.pos - 1, y, "."),
                                 pos |-> f.pos - 1]
                           ELSE [cells |-> f.cells, pos |-> f.pos]
                      v == Abs(int_part)
                      i == IF v = 0 /\ p.pos > x
                           THEN [cells |-> PutChar(p.cells, p.pos - 1, y, "0"),
                                 pos |-> p.pos - 1]
                           ELSE F64IntDigits(p.cells, x, y, v, p.pos)
                  IN  IF int_part < 0 /\ i.pos > x
                      THEN PutChar(i.cells, i.pos - 1, y, "-")
                      ELSE i.cells

(***************************************************************************)
(* Ui.  An operation on a Ui returns the Ui, the buffer it borrows and the *)
(* abort it ran into, if any.                                              *)
(***************************************************************************)
Result(ui, c, ab) == [ui |-> ui, cells |-> c, abort |-> ab]

Stops(r) == r.abort # "none"

\* the struct literal that Ui::new, Ui::child, Ui::frame and UiGrid::cell build
MakeUi(x, y, ax, ay, layout, spacing, draw) ==
    [cursor_x |-> x, cursor_y |-> y, max_x |-> x, max_y |-> y,
     available_x |-> ax, available_y |-> ay, used_x |-> 0, used_y |-> 0,
     layout |-> layout, spacing |-> spacing, draw |-> draw]

\* Ui::new
NewUi(x, y) == MakeUi(x, y, None, None, "Vertical", 0, TRUE)

\* the budget left after placing an item of this size: avail.checked_sub(size)
\* a budget that clamps to zero when exceeded
BudgetAfterClamped(avail, size) == Some(SaturatingSub(avail, size))

BudgetAfter(avail, size) == CheckedSub(avail, size)

\* an advance that moves the extents to the end of the last item
AdvanceToLast(ui, w, h) ==
    LET moved == [ui EXCEPT !.max_x = ui.cursor_x + w, !.max_y = ui.cursor_y + h]
    IN  IF ui.layout = "Vertical"
        THEN [moved EXCEPT
                !.used_x = Max(ui.used_x, w),
                !.available_y = IF ui.available_y.some
                                THEN BudgetAfter(ui.available_y.val, h)
                                ELSE ui.available_y,
                !.cursor_y = ui.cursor_y + h + ui.spacing]
        ELSE [moved EXCEPT
                !.used_y = Max(ui.used_y, h),
                !.available_x = IF ui.available_x.some
                                THEN BudgetAfter(ui.available_x.val, w)
                                ELSE ui.available_x,
                !.cursor_x = ui.cursor_x + w + ui.spacing]

\* Ui::advance
Advance(ui, w, h) ==
    LET grown == [ui EXCEPT !.max_x = Max(ui.max_x, ui.cursor_x + w),
                            !.max_y = Max(ui.max_y, ui.cursor_y + h)]
    IN  IF ui.layout = "Vertical"
        THEN [grown EXCEPT
                !.used_x = Max(ui.used_x, w),
                !.available_y = IF ui.available_y.some
                                THEN BudgetAfter(ui.available_y.val, h)
                                ELSE ui.available_y,
                !.cursor_y = ui.cursor_y + h + ui.spacing]
        ELSE [grown EXCEPT
                !.used_y = Max(ui.used_y, h),
                !.available_x = IF ui.available_x.some
                                THEN BudgetAfter(ui.available_x.val, w)
                                ELSE ui.available_x,
                !.cursor_x = ui.cursor_x + w + ui.spacing]

\* Ui::clear
ClearUi(ui, c) ==
    Result([ui EXCEPT !.cursor_x = 0, !.cursor_y = 0, !.max_x = 0, !.max_y = 0,
                      !.available_x = None, !.available_y = None,
                      !.used_x = 0, !.used_y = 0,
                      !.layout = "Vertical", !.spacing = 0],
           ClearCells(c), "none")

\* Ui::space
Space(ui, c, amount) ==
    Result(IF ui.layout = "Vertical" THEN Advance(ui, 0, amount)
           ELSE Advance(ui, amount, 0),
           c, "none")

\* &text[..w] when the text is longer than w, the text otherwise
Slice(text, w) == IF Len(text) > w THEN SubSeq(text, 1, w) ELSE text

\* the field width of a label: width.unwrap_or(len)
FieldWidth(text, width) == UnwrapOr(width, Len(text))

\* a label_align that ignores the outer alignment
OuterStartAtCursor(ui, w, align_outer) == ui.cursor_x

\* where label_align starts its field (the "outer" alignment)
OuterStart(ui, w, align_outer) ==
    IF ui.available_x.some
    THEN IF align_outer = "Left" THEN ui.cursor_x
         ELSE ui.cursor_x + SaturatingSub(ui.available_x.val, w)
    ELSE ui.cursor_x

\* where label_align starts the text (the "inner" alignment)
InnerStart(start_x, w, visible_len, align_inner) ==
    IF align_inner = "Left" THEN start_x
    ELSE start_x + SaturatingSub(w, visible_len)

\* where label_align blanks w cells before it writes the text
LabelAlignBlankStart(ui, w, align_outer) == ui.cursor_x

\* Ui::label_align
LabelAlign(ui, c, text, width, align_inner, align_outer) ==
    LET len == Len(text)
        w == FieldWidth(text, width)
        visible_len == Min(len, w)
        slice == Slice(text, w)
        start_x == InnerStart(OuterStart(ui, w, align_outer), w, visible_len,
                              align_inner)
        drawn == IF ui.draw
                 THEN WriteStr(BlankField(c, LabelAlignBlankStart(ui, w, align_outer),
                                          ui.cursor_y, w, 0),
                               start_x, ui.cursor_y, slice)
                 ELSE c
    IN  Result(Advance([ui EXCEPT !.used_x = Max(ui.used_x, w)], w, 1),
               drawn, "none")

\* where label starts the text
LabelStart(ui, w, visible_len, align) ==
    IF align = "Left" THEN ui.cursor_x ELSE ui.cursor_x + w - visible_len

\* a label that does not blank its field
LabelBlankSkipped(c, ui, w) == c

\* the blanking loop of label
LabelBlank(c, ui, w) == BlankField(c, ui.cursor_x, ui.cursor_y, w, 0)

\* Ui::label
Label(ui, c, text, width, align) ==
    LET len == Len(text)
        w == FieldWidth(text, width)
        visible_len == Min(len, w)
        slice == Slice(text, w)
        start_x == LabelStart(ui, w, visible_len, align)
        drawn == IF ui.draw
                 THEN WriteStr(LabelBlank(c, ui, w), start_x, ui.cursor_y, slice)
                 ELSE c
    IN  Result(Advance(ui, w, 1), drawn, "none")

\* a number_i64 whose footprint is two rows high
NumberI64Tall(ui, c, value, width) ==
    Result(Advance(ui, width, 2),
           IF ui.draw THEN WriteI64Right(c, ui.cursor_x, ui.cursor_y, value, width)
           ELSE c,
           "none")

\* Ui::number_i64
NumberI64(ui, c, value, width) ==
    Result(Advance(ui, width, 1),
           IF ui.draw THEN WriteI64Right(c, ui.cursor_x, ui.cursor_y, value, width)
           ELSE c,
           "none")

\* Ui::number_f64
NumberF64(ui, c, value, precision, width) ==
    Result(Advance(ui, width, 1),
           IF ui.draw
           THEN WriteF64Right(c, ui.cursor_x, ui.cursor_y, value, width, precision)
           ELSE c,
           "none")

\* the two strokes of one column of Ui::draw_frame's first loop, from dx on
RECURSIVE FrameRows(_, _, _, _, _, _)
FrameRows(c, x, y, w, h, dx) ==
    IF dx >= w THEN c
    ELSE FrameRows(PutChar(PutChar(c, x + dx, y, "-"), x + dx, y + h - 1, "-"),
                   x, y, w, h, dx + 1)

\* the two strokes of one row of Ui::draw_frame's second loop, from dy on
RECURSIVE FrameCols(_, _, _, _, _, _)
FrameCols(c, x, y, w, h, dy) ==
    IF dy >= h THEN c
    ELSE FrameCols(PutChar(PutChar(c, x, y + dy, "|"), x + w - 1, y + dy, "|"),
                   x, y, w, h, dy + 1)

\* Ui::draw_frame.  x + w - 1 and y + h - 1 are usize: with x + w = 0 or
\* y + h = 0 the subtraction goes below zero (the four corners are always
\* computed).
UiDrawFrame(ui, c, x, y, w, h) ==
    IF ~ui.draw THEN Result(ui, c, "none")
    ELSE IF x + w = 0 \/ y + h = 0 THEN Result(ui, c, "overflow")
    ELSE LET rows == FrameRows(c, x, y, w, h, 0)
             cols == FrameCols(rows, x, y, w, h, 0)
             c1 == PutChar(cols, x, y, "+")
             c2 == PutChar(c1, x + w - 1, y, "+")
             c3 == PutChar(c2, x, y + h - 1, "+")
         IN  Result(ui, PutChar(c3, x + w - 1, y + h - 1, "+"), "none")

\* the Ui that Ui::child hands to its closure
ChildNew(ui, layout, spacing) ==
    MakeUi(ui.cursor_x, ui.cursor_y, ui.available_x, ui.available_y,
           layout, spacing, ui.draw)

\* the size a child scope folds into its parent
ChildUsedW(child, start_x) ==
    IF child.layout = "Vertical" THEN child.used_x ELSE child.max_x - start_x

\* a fold that counts the spacing after the last item
ChildUsedHTrailing(child, start_y) ==
    IF child.layout = "Vertical" THEN child.cursor_y - start_y ELSE child.used_y

ChildUsedH(child, start_y) ==
    IF child.layout = "Vertical" THEN child.max_y - start_y ELSE child.used_y

\* Ui::child after f returned: child.max_x - start_x and child.max_y - start_y
\* are usize subtractions
ChildFold(ui, child, c) ==
    LET start_x == ui.cursor_x
        start_y == ui.cursor_y
        used_w == ChildUsedW(child, start_x)
        used_h == ChildUsedH(child, start_y)
    IN  IF used_w < 0 \/ used_h < 0 THEN Result(ui, c, "overflow")
        ELSE Result(Advance(ui, used_w, used_h), c, "none")

\* a frame budget that clamps to zero
FrameBudgetClamped(avail, padding) ==
    IF avail.some THEN Some(SaturatingSub(avail.val, 2 * padding)) ELSE None

\* the budget Ui::frame gives its child on one axis
FrameBudget(avail, padding) ==
    IF avail.some
    THEN IF SaturatingSub(avail.val, 2 * padding) > 0
         THEN Some(avail.val - 2 * padding)
         ELSE None
    ELSE None

\* the Ui that Ui::frame hands to its closure
FrameNew(ui, padding) ==
    MakeUi(ui.cursor_x + padding, ui.cursor_y + padding,
           FrameBudget(ui.available_x, padding),
           FrameBudget(ui.available_y, padding),
           "Vertical", ui.spacing, ui.draw)

\* the box size of a frame on one axis: the stretch hint applied to the content
Stretched(used, avail, stretch) ==
    IF stretch = "Full" THEN Max(used, UnwrapOr(avail, 0)) ELSE used

\* Ui::frame after f returned
FrameFold(ui, child, c, padding, border, stretch) ==
    LET start_x == ui.cursor_x
        start_y == ui.cursor_y
    IN  IF child.max_x < start_x \/ child.max_y < start_y
        THEN Result(ui, c, "overflow")
        ELSE LET used_w == Stretched(child.max_x - start_x + padding,
                                     ui.available_x, stretch)
                 used_h == Stretched(child.max_y - start_y + padding,
                                     ui.available_y, stretch)
                 framed == IF border = "Full"
                           THEN UiDrawFrame(ui, c, start_x, start_y, used_w, used_h)
                           ELSE Result(ui, c, "none")
             IN  IF Stops(framed) THEN framed
                 ELSE Result(Advance(ui, used_w, used_h), framed.cells, "none")

(***************************************************************************)
(* A closure handed to a scope is the sequence of operations it issues on  *)
(* the Ui it receives; the closure handed to grid() is the sequence of its *)
(* cell() calls, each with the closure of that cell.                       *)
(***************************************************************************)
Op(op, text, width, a1, a2, n1, n2, fv, body, cls) ==
    [op |-> op, text |-> text, width |-> width, a1 |-> a1, a2 |-> a2,
     n1 |-> n1, n2 |-> n2, fv |-> fv, body |-> body, cls |-> cls]

OpLabel(text, width, align) ==
    Op("label", text, width, align, "Left", 0, 0, F64(0, 1), <<>>, <<>>)

OpLabelAlign(text, width, inner, outer) ==
    Op("label_align", text, width, inner, outer, 0, 0, F64(0, 1), <<>>, <<>>)

OpNumberI64(value, width) ==
    Op("number_i64", <<>>, None, "Left", "Left", value, width, F64(0, 1), <<>>, <<>>)

OpNumberF64(value, precision, width) ==
    Op("number_f64", <<>>, None, "Left", "Left", precision, width, value, <<>>, <<>>)

OpSpace(amount) ==
    Op("space", <<>>, None, "Left", "Left", amount, 0, F64(0, 1), <<>>, <<>>)

OpClear == Op("clear", <<>>, None, "Left", "Left", 0, 0, F64(0, 1), <<>>, <<>>)

OpVertical(body) ==
    Op("child", <<>>, None, "Vertical", "Left", 0, 0, F64(0, 1), body, <<>>)

OpHorizontal(body) ==
    Op("child", <<>>, None, "Horizontal", "Left", 0, 0, F64(0, 1), body, <<>>)

OpFrame(padding, border, stretch, body) ==
    Op("frame", <<>>, None, border, stretch, padding, 0, F64(0, 1), body, <<>>)

OpGrid(cols, spacing, cls) ==
    Op("grid", <<>>, None, "Left", "Left", cols, spacing, F64(0, 1), <<>>, cls)

\* vec![0; n]
Zeros(n) == [i \in 1..n |-> 0]

\* Vec::resize(n, 0) of a vector shorter than n
Resize(v, n) == IF Len(v) < n THEN v \o Zeros(n - Len(v)) ELSE v

\* the UiGrid struct literal of Ui::grid
NewGrid(ui, cols, spacing, widths, heights, draw) ==
    [start_x |-> ui.cursor_x, start_y |-> ui.cursor_y, cols |-> cols,
     spacing |-> ui.spacing, spacing_inner |-> spacing, cell_idx |-> 0,
     cursor_x |-> 0, cursor_y |-> 0,
     max_col_width |-> widths, max_row_height |-> heights, draw |-> draw,
     log |-> <<>>]

\* a footprint that counts the spacing after the last column
GridUsedWTrailing(g, cols) ==
    SumSeq(g.max_col_width) + g.spacing_inner * cols

\* the footprint Ui::grid folds into the enclosing Ui
GridUsedW(g, cols) ==
    SumSeq(g.max_col_width) + g.spacing_inner * SaturatingSub(cols, 1)

GridUsedH(g) ==
    SumSeq(g.max_row_height)
        + g.spacing_inner * SaturatingSub(Len(g.max_row_height), 1)

\* where UiGrid::cell places the cell on one axis
CellStart(start, sizes, k, spacing_inner) ==
    start + SumSeq(SubSeq(sizes, 1, k)) + k * spacing_inner

\* the budget UiGrid::cell gives the cell on one axis
CellBudget(size) == Some(size)

RECURSIVE RunOps(_, _, _)
RECURSIVE ExecOp(_, _, _)
RECURSIVE RunCells(_, _, _)
RECURSIVE GridCell(_, _, _)
RECURSIVE GridPasses(_, _, _, _, _)
RECURSIVE Grid(_, _, _, _, _)
RECURSIVE Child(_, _, _, _, _)
RECURSIVE Frame(_, _, _, _, _, _)

\* what the log of a UiGrid keeps of a cell() call: the index, the column and
\* row it was assigned, the draw flag and the vectors the cell started with
CellCall(g, widths, heights, col, row) ==
    [idx |-> g.cell_idx, col |-> col, row |-> row, draw |-> g.draw,
     widths |-> widths, heights |-> heights]

\* UiGrid::cell after f returned with r, for the cell at (col, row) placed at
\* (start_x, start_y): cell_ui.max_x - start_x and cell_ui.max_y - start_y are
\* usize subtractions
CellFold(g, r, widths, heights, col, row, start_x, start_y) ==
    IF Stops(r) THEN [grid |-> g, cells |-> r.cells, abort |-> r.abort]
    ELSE IF r.ui.max_x < start_x \/ r.ui.max_y < start_y
    THEN [grid |-> g, cells |-> r.cells, abort |-> "overflow"]
    ELSE [grid |-> [g EXCEPT
             !.max_col_width =
                 [widths EXCEPT ![col + 1] =
                     Max(widths[col + 1], r.ui.max_x - start_x)],
             !.max_row_height =
                 [heights EXCEPT ![row + 1] =
                     Max(heights[row + 1], r.ui.max_y - start_y)],
             !.cell_idx = g.cell_idx + 1,
             !.log = Append(g.log, CellCall(g, widths, heights, col, row))],
          cells |-> r.cells, abort |-> "none"]

\* UiGrid::cell for the cell at (col, row)
CellAt(g, c, f, col, row, widths, heights) ==
    CellFold(g,
             RunOps(MakeUi(CellStart(g.start_x, widths, col, g.spacing_inner),
                           CellStart(g.start_y, heights, row, g.spacing_inner),
                           CellBudget(widths[col + 1]), CellBudget(heights[row + 1]),
                           "Horizontal", g.spacing, g.draw),
                    c, f),
             widths, heights, col, row,
             CellStart(g.start_x, widths, col, g.spacing_inner),
             CellStart(g.start_y, heights, row, g.spacing_inner))

\* UiGrid::cell: cell_idx % cols and cell_idx / cols divide by cols
GridCell(g, c, f) ==
    IF g.cols = 0 THEN [grid |-> g, cells |-> c, abort |-> "div_by_zero"]
    ELSE CellAt(g, c, f, g.cell_idx % g.cols, g.cell_idx \div g.cols,
                Resize(g.max_col_width, g.cols),
                Resize(g.max_row_height, (g.cell_idx \div g.cols) + 1))

\* the rest of a run of the closure of grid() after one cell() returned r
CellsRest(r, rest) == IF Stops(r) THEN r ELSE RunCells(r.grid, r.cells, rest)

\* one run of the closure of grid(): its cell() calls in order
RunCells(g, c, cls) ==
    IF cls = <<>> THEN [grid |-> g, cells |-> c, abort |-> "none"]
    ELSE CellsRest(GridCell(g, c, Head(cls)), Tail(cls))

\* a second run that starts from zero vectors like the first
DrawPassUnmeasured(ui, m, cols, spacing, cls) ==
    [measure |-> m,
     draw |-> IF Stops(m) THEN m
              ELSE RunCells(NewGrid(ui, cols, spacing, Zeros(cols), <<0>>, TRUE),
                            m.cells, cls)]

\* the second run of the closure of grid(), after the first returned m
DrawPass(ui, m, cols, spacing, cls) ==
    [measure |-> m,
     draw |-> IF Stops(m) THEN m
              ELSE RunCells(NewGrid(ui, cols, spacing, m.grid.max_col_width,
                                    m.grid.max_row_height, TRUE),
                            m.cells, cls)]

\* the two passes of Ui::grid
GridPasses(ui, c, cols, spacing, cls) ==
    DrawPass(ui,
             RunCells(NewGrid(ui, cols, spacing, Zeros(cols), <<0>>, FALSE), c, cls),
             cols, spacing, cls)

\* Ui::grid after the draw pass returned d
GridFold(ui, d, cols) ==
    IF Stops(d) THEN Result(ui, d.cells, d.abort)
    ELSE Result(Advance(ui, GridUsedW(d.grid, cols), GridUsedH(d.grid)),
                d.cells, "none")

\* Ui::grid
Grid(ui, c, cols, spacing, cls) ==
    GridFold(ui, GridPasses(ui, c, cols, spacing, cls).draw, cols)

\* Ui::child after f returned with r
ChildReturn(ui, r) ==
    IF Stops(r) THEN Result(ui, r.cells, r.abort)
    ELSE ChildFold(ui, r.ui, r.cells)

\* Ui::child
Child(ui, c, layout, spacing, body) ==
    ChildReturn(ui, RunOps(ChildNew(ui, layout, spacing), c, body))

\* Ui::frame after f returned with r
FrameReturn(ui, r, padding, border, stretch) ==
    IF Stops(r) THEN Result(ui, r.cells, r.abort)
    ELSE FrameFold(ui, r.ui, r.cells, padding, border, stretch)

\* Ui::frame
Frame(ui, c, padding, border, stretch, body) ==
    FrameReturn(ui, RunOps(FrameNew(ui, padding), c, body), padding, border, stretch)

\* one call of a closure on its Ui
ExecOp(ui, c, o) ==
    CASE o.op = "label" -> Label(ui, c, o.text, o.width, o.a1)
      [] o.op = "label_align" -> LabelAlign(ui, c, o.text, o.width, o.a1, o.a2)
      [] o.op = "number_i64" -> NumberI64(ui, c, o.n1, o.n2)
      [] o.op = "number_f64" -> NumberF64(ui, c, o.fv, o.n1, o.n2)
      [] o.op = "space" -> Space(ui, c, o.n1)
      [] o.op = "clear" -> ClearUi(ui, c)
      [] o.op = "child" -> Child(ui, c, o.a1, ui.spacing, o.body)
      [] o.op = "frame" -> Frame(ui, c, o.n1, o.a1, o.a2, o.body)
      [] o.op = "grid" -> Grid(ui, c, o.n1, o.n2, o.cls)

\* the rest of a closure after one of its calls returned r
OpsRest(r, rest) == IF Stops(r) THEN r ELSE RunOps(r.ui, r.cells, rest)

\* a closure run to completion on its Ui
RunOps(ui, c, ops) ==
    IF ops = <<>> THEN Result(ui, c, "none")
    ELSE OpsRest(ExecOp(ui, c, Head(ops)), Tail(ops))

(***************************************************************************)
(* The state machine.  A scope whose closure is running is an entry of     *)
(* stack: its Ui, the call that opened it, and the footprints <<w, h>> of  *)
(* the items its closure has placed so far.                                *)
(***************************************************************************)
Letters == <<"a", "b", "c", "d", "e", "f", "g", "h">>

\* a text of n distinct single-column characters
TextOf(n) == [i \in 1..n |-> Letters[((i - 1) % Len(Letters)) + 1]]

Aligns == {"Left", "Right"}

Layouts == {"Vertical", "Horizontal"}

Borders == {"Full", "No"}

Stretches == {"Full", "Compact"}

Entry(ui, kind, padding, border, stretch) ==
    [ui |-> ui, kind |-> kind, padding |-> padding, border |-> border,
     stretch |-> stretch, items |-> <<>>, cleared |-> FALSE,
     start_x |-> ui.cursor_x, start_y |-> ui.cursor_y]

Depth == Len(stack)

Top == stack[Depth]

Running == abort = "none"

\* the operation r, which placed an item of footprint item, ends on the top scope
Placed(r, item) ==
    /\ cells' = r.cells
    /\ abort' = r.abort
    /\ stack' = IF Stops(r) THEN stack
                ELSE [stack EXCEPT ![Depth] =
                        [@ EXCEPT !.ui = r.ui, !.items = Append(@, item)]]
    /\ steps' = steps + 1

\* what last keeps of a leaf call
LeafCall(op, text, width, inner, outer, value, precision) ==
    [op |-> op, text |-> text, width |-> width, inner |-> inner, outer |-> outer,
     value |-> value, precision |-> precision, before |-> Top.ui, was |-> cells]

DoLabel(text, width, align) ==
    /\ Running
    /\ Placed(Label(Top.ui, cells, text, width, align),
              <<FieldWidth(text, width), 1>>)
    /\ last' = LeafCall("label", text, width, align, align, 0, 0)

DoLabelAlign(text, width, inner, outer) ==
    /\ Running
    /\ Placed(LabelAlign(Top.ui, cells, text, width, inner, outer),
              <<FieldWidth(text, width), 1>>)
    /\ last' = LeafCall("label_align", text, width, inner, outer, 0, 0)

DoNumberI64(value, width) ==
    /\ Running
    /\ Placed(NumberI64(Top.ui, cells, value, width), <<width, 1>>)
    /\ last' = LeafCall("number_i64", <<>>, Some(width), "Right", "Left", value, 0)

DoNumberF64(value, precision, width) ==
    /\ Running
    /\ Placed(NumberF64(Top.ui, cells, value, precision, width), <<width, 1>>)
    /\ last' = LeafCall("number_f64", <<>>, Some(width), "Right", "Left", value,
                        precision)

DoSpace(amount) ==
    /\ Running
    /\ Placed(Space(Top.ui, cells, amount),
              IF Top.ui.layout = "Vertical" THEN <<0, amount>> ELSE <<amount, 0>>)
    /\ last' = [op |-> "space", amount |-> amount, before |-> Top.ui, was |-> cells]

DoClear ==
    /\ Running
    /\ LET r == ClearUi(Top.ui, cells)
       IN  /\ cells' = r.cells
           /\ stack' = [stack EXCEPT ![Depth] =
                          [@ EXCEPT !.ui = r.ui, !.items = <<>>, !.cleared = TRUE]]
    /\ steps' = steps + 1
    /\ last' = [op |-> "clear", before |-> Top.ui, was |-> cells]
    /\ UNCHANGED abort

\* vertical(f) and horizontal(f) up to the call of f
OpenChild(layout) ==
    /\ Running
    /\ Depth < MaxDepth
    /\ stack' = Append(stack, Entry(ChildNew(Top.ui, layout, Top.ui.spacing),
                                    "child", 0, "No", "Compact"))
    /\ steps' = steps + 1
    /\ last' = [op |-> "open", kind |-> "child", before |-> Top.ui]
    /\ UNCHANGED <<cells, abort>>

\* frame(padding, border, stretch, f) up to the call of f
OpenFrame(padding, border, stretch) ==
    /\ Running
    /\ Depth < MaxDepth
    /\ stack' = Append(stack, Entry(FrameNew(Top.ui, padding),
                                    "frame", padding, border, stretch))
    /\ steps' = steps + 1
    /\ last' = [op |-> "open", kind |-> "frame", before |-> Top.ui]
    /\ UNCHANGED <<cells, abort>>

\* the scope r folded into, with the scope that returned popped
Folded(r, item) ==
    /\ cells' = r.cells
    /\ abort' = r.abort
    /\ stack' = IF Stops(r) THEN stack
                ELSE [SubSeq(stack, 1, Depth - 1) EXCEPT ![Depth - 1] =
                        [@ EXCEPT !.ui = r.ui, !.items = Append(@, item)]]
    /\ UNCHANGED steps

\* what last keeps of a scope that returned
FoldCall(kind, r, used_w, used_h) ==
    [op |-> "fold", kind |-> kind, scope |-> Top, parent |-> stack[Depth - 1].ui,
     used_w |-> used_w, used_h |-> used_h, after |-> r.ui, was |-> cells]

\* vertical(f) and horizontal(f) from the return of f
CloseChild ==
    /\ Running
    /\ Depth > 1
    /\ Top.kind = "child"
    /\ LET parent == stack[Depth - 1].ui
           r == ChildFold(parent, Top.ui, cells)
           used_w == ChildUsedW(Top.ui, parent.cursor_x)
           used_h == ChildUsedH(Top.ui, parent.cursor_y)
       IN  /\ Folded(r, <<used_w, used_h>>)
           /\ last' = FoldCall("child", r, used_w, used_h)

\* frame(padding, border, stretch, f) from the return of f
CloseFrame ==
    /\ Running
    /\ Depth > 1
    /\ Top.kind = "frame"
    /\ LET parent == stack[Depth - 1].ui
           r == FrameFold(parent, Top.ui, cells, Top.padding, Top.border, Top.stretch)
           used_w == Stretched(Top.ui.max_x - parent.cursor_x + Top.padding,
                               parent.available_x, Top.stretch)
           used_h == Stretched(Top.ui.max_y - parent.cursor_y + Top.padding,
                               parent.available_y, Top.stretch)
       IN  /\ Folded(r, <<used_w, used_h>>)
           /\ last' = FoldCall("frame", r, used_w, used_h)

\* what last keeps of a grid() call
GridCall(cols, spacing, cls, p, r) ==
    [op |-> "grid", cols |-> cols, spacing |-> spacing, f |-> cls, n |-> Len(cls),
     lens |-> [i \in 1..Len(cls) |->
                  IF Len(cls[i]) = 1 /\ cls[i][1].op = "label"
                  THEN FieldWidth(cls[i][1].text, cls[i][1].width) ELSE -1],
     ops |-> UNION {{cls[i][j].op : j \in 1..Len(cls[i])} : i \in 1..Len(cls)},
     measured_w |-> p.measure.grid.max_col_width,
     measured_h |-> p.measure.grid.max_row_height,
     measured_cells |-> p.measure.cells,
     measure_abort |-> p.measure.abort,
     measure_log |-> p.measure.grid.log,
     draw_log |-> p.draw.grid.log,
     drawn_w |-> p.draw.grid.max_col_width,
     drawn_h |-> p.draw.grid.max_row_height,
     before |-> Top.ui, after |-> r.ui, was |-> cells]

\* the end of a grid() call whose passes returned p and which returned r
GridDone(cols, spacing, cls, p, r) ==
    /\ Placed(r, <<GridUsedW(p.draw.grid, cols), GridUsedH(p.draw.grid)>>)
    /\ last' = GridCall(cols, spacing, cls, p, r)

\* the end of a grid() call whose passes returned p
GridReturn(cols, spacing, cls, p) ==
    GridDone(cols, spacing, cls, p, GridFold(Top.ui, p.draw, cols))

\* grid(cols, spacing, f), both runs of f included
DoGrid(cols, spacing, cls) ==
    /\ Running
    /\ GridReturn(cols, spacing, cls, GridPasses(Top.ui, cells, cols, spacing, cls))

(***************************************************************************)
(* Spec: one render pass of nested scopes.  The root Ui is Ui::new(x, y);  *)
(* its budget and spacing fields are visible inside the crate and are set  *)
(* there before rendering, as test::render_test sets available_x.          *)
(***************************************************************************)
RootUi(x, y, ax, ay, spacing) ==
    [NewUi(x, y) EXCEPT !.available_x = ax, !.available_y = ay,
                        !.spacing = spacing]

Start(root) ==
    /\ cells = NewCells
    /\ stack = <<Entry(root, "root", 0, "No", "Compact")>>
    /\ abort = "none"
    /\ last = [op |-> "new"]
    /\ steps = 0

Init ==
    \E o \in 0..MaxOrigin, sp \in 0..MaxSpacing, b \in {None, Some(MaxBudget)} :
        Start(RootUi(o, o, b, b, sp))

\* the closures of the grids of Spec
SmallGrids ==
    {<<>>,
     <<<<OpLabel(TextOf(1), None, "Left")>>>>,
     <<<<OpLabel(TextOf(2), None, "Left")>>, <<OpLabel(TextOf(1), None, "Left")>>>>,
     <<<<OpLabel(TextOf(2), None, "Left")>>, <<OpFrame(0, "Full", "Full", <<>>)>>>>,
     <<<<OpLabel(TextOf(2), None, "Left")>>,
       <<OpClear, OpLabel(TextOf(1), None, "Left")>>>>}

Within(n) == steps < n

Next ==
    \/ Within(MaxSteps) /\ \E n \in 0..MaxLen :
          DoLabel(TextOf(n), None, "Left")
    \/ Within(MaxSteps) /\ \E amount \in 0..MaxAmount :
          DoSpace(amount)
    \/ Within(MaxSteps) /\ DoClear
    \/ Within(MaxSteps) /\ \E layout \in Layouts :
          OpenChild(layout)
    \/ Within(MaxSteps) /\ \E padding \in 0..MaxPadding, border \in Borders, stretch \in Stretches :
          OpenFrame(padding, border, stretch)
    \/ Within(MaxSteps) /\ \E cols \in 0..MaxCols, cls \in SmallGrids :
          DoGrid(cols, MaxSpacing, cls)
    \/ CloseChild
    \/ CloseFrame

Spec == Init /\ [][Next]_vars

(***************************************************************************)
(* SpecLeaf: one leaf call on a scope in any state.  What a leaf does      *)
(* depends on the Ui it is called on and on the buffer only, so the runs   *)
(* are: an optional stale character put on the buffer, an optional nested  *)
(* scope, one leaf.                                                        *)
(***************************************************************************)
Stale == "#"

\* DrawTarget::put_char called on the buffer by the driver
BufPutChar(x, y, ch) ==
    /\ cells' = PutChar(cells, x, y, ch)
    /\ last' = [op |-> "put_char", x |-> x, y |-> y, ch |-> ch, was |-> cells]
    /\ steps' = steps + 1
    /\ UNCHANGED <<stack, abort>>

Fresh == steps = 0

NoItemYet == Depth > 0 /\ Top.items = <<>> /\ ~Top.cleared

LeafBudgets == {None, Some(0), Some(MaxBudget), Some(ScreenW)}

Widths == {None} \cup {Some(w) : w \in 0..MaxField}

\* the values the number leaves show
LeafValues == {-MaxValue, -1, 0, 7, MaxValue}

LeafQuarters == {F64(n, 4) : n \in {-MaxQuarters, -3, 0, 3, MaxQuarters}}

InitLeaf ==
    \E o \in 0..MaxOrigin, sp \in 0..MaxSpacing, b \in LeafBudgets :
        Start(RootUi(o, o, b, b, sp))

NextLeaf ==
    \/ Fresh /\ \E x \in 0..(ScreenW - 1), y \in 0..(ScreenH - 1) :
          BufPutChar(x, y, Stale)
    \/ NoItemYet /\ Depth = 1 /\ \E layout \in Layouts :
          OpenChild(layout)
    \/ NoItemYet /\ \E n \in 0..MaxLen, width \in Widths, align \in Aligns :
          DoLabel(TextOf(n), width, align)
    \/ NoItemYet /\ \E n \in 0..MaxLen, width \in Widths, inner \in Aligns, outer \in Aligns :
          DoLabelAlign(TextOf(n), width, inner, outer)
    \/ NoItemYet /\ \E value \in LeafValues, width \in 0..MaxField :
          DoNumberI64(value, width)
    \/ NoItemYet /\ \E value \in LeafQuarters, precision \in 0..MaxPrecision, width \in 0..MaxField :
          DoNumberF64(value, precision, width)
    \/ NoItemYet /\ \E amount \in 0..MaxAmount :
          DoSpace(amount)
    \/ CloseChild

SpecLeaf == InitLeaf /\ [][NextLeaf]_vars

(***************************************************************************)
(* SpecGrid: one grid() call on the root Ui.                               *)
(***************************************************************************)
\* a cell holding one text of natural width n
TextCell(n) == <<OpLabel(TextOf(n), None, "Left")>>

RECURSIVE SeqsUpTo(_, _)
\* the sequences of at most n elements of S
SeqsUpTo(S, n) ==
    IF n = 0 THEN {<<>>}
    ELSE LET shorter == SeqsUpTo(S, n - 1)
         IN  shorter \cup {Append(q, e) : q \in shorter, e \in S}

\* the closures that issue up to MaxCells cells of one text each; among them
\* the grid of the four texts of widths 3, 5, 2, 7
TextGrids ==
    SeqsUpTo({TextCell(n) : n \in 0..MaxLen}, MaxCells)
        \cup {<<TextCell(3), TextCell(5), TextCell(2), TextCell(7)>>}

\* what a cell closure of RichGrids calls
CellItems ==
    {OpLabel(TextOf(n), None, "Left") : n \in 1..2}
        \cup {OpFrame(padding, border, stretch, body) :
                padding \in 0..MaxPadding, border \in Borders, stretch \in Stretches,
                body \in {<<>>, <<OpLabel(TextOf(1), None, "Left")>>}}
        \cup {OpVertical(body) : body \in {TextCell(1), TextCell(1) \o TextCell(2)}}
        \cup {OpHorizontal(body) : body \in {TextCell(1), TextCell(1) \o TextCell(2)}}
        \cup {OpGrid(1, 0, <<TextCell(1)>>), OpSpace(1), OpClear}

\* the closures that issue one cell of up to two calls, alone or beside a text
RichGrids ==
    LET rich == SeqsUpTo(CellItems, 2)
    IN  {<<a>> : a \in rich} \cup {<<a, TextCell(2)>> : a \in rich}
            \cup {<<TextCell(2), a>> : a \in rich}

InitGrid ==
    \E o \in 0..MaxOrigin, sp \in 0..MaxSpacing : Start(RootUi(o, o, None, None, sp))

NextGrid ==
    \/ NoItemYet /\ \E cols \in 1..MaxCols, spacing \in 0..MaxSpacing, cls \in TextGrids :
          DoGrid(cols, spacing, cls)
    \/ NoItemYet /\ \E cols \in 0..MaxCols, spacing \in 0..MaxSpacing, cls \in RichGrids :
          DoGrid(cols, spacing, cls)

SpecGrid == InitGrid /\ [][NextGrid]_vars

(***************************************************************************)
(* SpecBuf: the writers of ScreenBuffer called by the driver, each on a    *)
(* blank buffer or on one that holds a stale character.                    *)
(***************************************************************************)
InitBuf ==
    /\ cells = NewCells
    /\ stack = <<>>
    /\ abort = "none"
    /\ last = [op |-> "new"]
    /\ steps = 0

Quarters == {F64(n, 4) : n \in (-MaxQuarters)..MaxQuarters}

\* DrawTarget::write_f64_right called on the buffer by the driver
BufWriteF64Right(x, y, value, width, precision) ==
    /\ cells' = WriteF64Right(cells, x, y, value, width, precision)
    /\ last' = [op |-> "write_f64_right", x |-> x, y |-> y, value |-> value,
                width |-> width, precision |-> precision, was |-> cells,
                again |-> FALSE]
    /\ steps' = steps + 1
    /\ UNCHANGED <<stack, abort>>

\* DrawTarget::write_i64_right called on the buffer by the driver
BufWriteI64Right(x, y, value, width) ==
    /\ cells' = WriteI64Right(cells, x, y, value, width)
    /\ last' = [op |-> "write_i64_right", x |-> x, y |-> y, value |-> value,
                width |-> width, was |-> cells, again |-> FALSE]
    /\ steps' = steps + 1
    /\ UNCHANGED <<stack, abort>>

\* DrawTarget::write_i64_right called on the buffer by the driver with a value
\* of the full range, in a build with or without overflow checks
BufWriteI64RightWide(x, y, v, width, checks) ==
    /\ cells' = WriteI64RightWide(cells, x, y, v, width, checks).cells
    /\ abort' = WriteI64RightWide(cells, x, y, v, width, checks).abort
    /\ last' = [op |-> "write_i64_right_wide", x |-> x, y |-> y, value |-> v,
                width |-> width, checks |-> checks, was |-> cells]
    /\ steps' = steps + 1
    /\ UNCHANGED stack

\* the ends of the range of i64 and some values between them
WideValues ==
    {I64Min, I64(TRUE, I64MaxMag), I64Max, I64(TRUE, <<1, 2>>), I64(FALSE, <<>>),
     I64(FALSE, <<7>>)}

\* DrawTarget::write_str called on the buffer by the driver
BufWriteStr(x, y, text) ==
    /\ cells' = WriteStr(cells, x, y, text)
    /\ last' = [op |-> "write_str", x |-> x, y |-> y, text |-> text, was |-> cells]
    /\ steps' = steps + 1
    /\ UNCHANGED <<stack, abort>>

\* DrawTarget::draw_hline called on the buffer by the driver
BufDrawHline(x, y, w, ch) ==
    /\ cells' = DrawHline(cells, x, y, w, ch)
    /\ last' = [op |-> "draw_hline", x |-> x, y |-> y, len |-> w, ch |-> ch,
                was |-> cells]
    /\ steps' = steps + 1
    /\ UNCHANGED <<stack, abort>>

\* DrawTarget::draw_vline called on the buffer by the driver
BufDrawVline(x, y, h, ch) ==
    /\ cells' = DrawVline(cells, x, y, h, ch)
    /\ last' = [op |-> "draw_vline", x |-> x, y |-> y, len |-> h, ch |-> ch,
                was |-> cells]
    /\ steps' = steps + 1
    /\ UNCHANGED <<stack, abort>>

\* DrawTarget::draw_frame called on the buffer by the driver
BufDrawFrame(x, y, w, h) ==
    /\ cells' = DrawFrame(cells, x, y, w, h).cells
    /\ abort' = DrawFrame(cells, x, y, w, h).abort
    /\ last' = [op |-> "draw_frame", x |-> x, y |-> y, w |-> w, h |-> h,
                was |-> cells]
    /\ steps' = steps + 1
    /\ UNCHANGED stack

\* the driver repeats its last write_i64_right or write_f64_right call with
\* the same arguments; last.was becomes the buffer the first call left
BufWriteAgain ==
    /\ last.op \in {"write_i64_right", "write_f64_right"}
    /\ ~last.again
    /\ cells' = IF last.op = "write_i64_right"
                THEN WriteI64Right(cells, last.x, last.y, last.value, last.width)
                ELSE WriteF64Right(cells, last.x, last.y, last.value, last.width,
                                   last.precision)
    /\ last' = [last EXCEPT !.again = TRUE, !.was = cells]
    /\ steps' = steps + 1
    /\ UNCHANGED <<stack, abort>>

\* a call other than the put_char that left the stale character was made
Written == last.op # "new" /\ ~(last.op = "put_char" /\ last.ch = Stale)

\* where the driver starts a field: near the origin, and two cells before the
\* right edge
FieldOrigins == (0..MaxOrigin) \cup {ScreenW - 2}

NextBuf ==
    \/ Fresh /\ \E x \in 0..(ScreenW - 1), y \in 0..(ScreenH - 1) :
          BufPutChar(x, y, Stale)
    \/ ~Written /\ \E x \in 0..MaxOrigin, y \in 0..ScreenH, value \in Quarters, width \in 0..ScreenW, precision \in 0..MaxPrecision :
          BufWriteF64Right(x, y, value, width, precision)
    \/ ~Written /\ \E x \in 0..ScreenW, y \in 0..ScreenH, ch \in {"a", Blank} :
          BufPutChar(x, y, ch)
    \/ ~Written /\ \E x \in 0..ScreenW, y \in 0..ScreenH, n \in 0..MaxLen :
          BufWriteStr(x, y, TextOf(n))
    \/ ~Written /\ \E x \in FieldOrigins, y \in 0..ScreenH, value \in (-MaxValue)..MaxValue, width \in 0..MaxField :
          BufWriteI64Right(x, y, value, width)
    \/ ~Written /\ \E x \in 0..ScreenW, y \in 0..ScreenH, w \in 0..MaxLen :
          BufDrawHline(x, y, w, "-")
    \/ ~Written /\ \E x \in 0..ScreenW, y \in 0..ScreenH, h \in 0..MaxLen :
          BufDrawVline(x, y, h, "|")
    \/ ~Written /\ \E x \in 0..MaxOrigin, y \in 0..MaxOrigin, w \in 0..MaxField, h \in 0..MaxLen :
          BufDrawFrame(x, y, w, h)
    \/ ~Written /\ \E x \in FieldOrigins, y \in 0..ScreenH, v \in WideValues, width \in 0..MaxField, checks \in BOOLEAN :
          BufWriteI64RightWide(x, y, v, width, checks)
    \/ BufWriteAgain

SpecBuf == InitBuf /\ [][NextBuf]_vars


(***************************************************************************)
(* Reading a number back from the buffer.                                  *)
(***************************************************************************)
\* the characters of the width cells from (x, y) on, all of them on the grid
FieldText(c, x, y, width) == [i \in 1..width |-> c[Index(x + i - 1, y)]]

FieldOnGrid(x, y, width) == y < ScreenH /\ x + width <= ScreenW

DigitValue(ch) ==
    IF \E d \in 0..9 : Digits[d + 1] = ch
    THEN CHOOSE d \in 0..9 : Digits[d + 1] = ch
    ELSE -1

RECURSIVE LeadingBlanks(_)
LeadingBlanks(s) ==
    IF s # <<>> /\ Head(s) = Blank THEN 1 + LeadingBlanks(Tail(s)) ELSE 0

\* digits, at most one point among them, then the end of the text
RECURSIVE ParseFrom(_, _, _)
ParseFrom(s, i, st) ==
    IF i > Len(s) THEN st
    ELSE IF DigitValue(s[i]) >= 0
    THEN ParseFrom(s, i + 1,
                   [st EXCEPT !.val = 10 * @ + DigitValue(s[i]),
                              !.fd = IF st.point THEN @ + 1 ELSE @,
                              !.digits = @ + 1])
    ELSE IF s[i] = "." /\ ~st.point
    THEN ParseFrom(s, i + 1, [st EXCEPT !.point = TRUE])
    ELSE [st EXCEPT !.ok = FALSE]

\* the decimal a text reads as: blanks, an optional sign, digits with an
\* optional point; its value is num / 10^fd
ParseDecimal(s) ==
    LET t == SubSeq(s, LeadingBlanks(s) + 1, Len(s))
        neg == t # <<>> /\ Head(t) = "-"
        st == ParseFrom(IF neg THEN Tail(t) ELSE t, 1,
                        [ok |-> TRUE, val |-> 0, fd |-> 0, point |-> FALSE,
                         digits |-> 0])
    IN  [ok |-> st.ok /\ st.digits > 0,
         num |-> IF neg THEN -st.val ELSE st.val,
         fd |-> st.fd]

RECURSIVE NumDigits(_)
NumDigits(n) == IF n < 10 THEN 1 ELSE 1 + NumDigits(n \div 10)

\* a field width that holds the sign, the integer digits, the point and the
\* fractional digits of round(value * 10^precision) / 10^precision
RoomFor(value, precision) ==
    1 + NumDigits(Abs(RoundF64(value.num * Pow10(precision), value.den))
                    \div Pow10(precision))
      + (IF precision > 0 THEN precision + 1 ELSE 0)

(***************************************************************************)
(* C10: for every value and precision, the text write_f64_right renders    *)
(* into a field that is wide enough reads back as                          *)
(* round(value * 10^precision) / 10^precision, the sign of a negative      *)
(* value included.                                                         *)
(***************************************************************************)
C10_F64ReadsBack ==
    (/\ last.op = "write_f64_right"
     /\ FieldOnGrid(last.x, last.y, last.width)
     /\ last.width >= RoomFor(last.value, last.precision))
    => LET read == ParseDecimal(FieldText(cells, last.x, last.y, last.width))
       IN  /\ read.ok
           /\ read.num * Pow10(last.precision)
                = RoundF64(last.value.num * Pow10(last.precision), last.value.den)
                    * Pow10(read.fd)


(***************************************************************************)
(* The grid, as the claims describe it.  The last grid() call issued n     *)
(* cells on cols columns; a cell holding one text has its natural width in *)
(* last.lens.                                                              *)
(***************************************************************************)
RECURSIVE MaxOver(_)
\* the largest of a finite set of naturals, 0 for the empty set
MaxOver(S) ==
    IF S = {} THEN 0
    ELSE LET e == CHOOSE e \in S : TRUE
         IN  Max(e, MaxOver(S \ {e}))

GridRan == last.op = "grid" /\ last.measure_abort = "none" /\ abort = "none"

TextOnly == GridRan /\ last.cols >= 1 /\ \A i \in 1..last.n : last.lens[i] >= 0

\* the number of rows that hold a cell
PopulatedRows == (last.n + last.cols - 1) \div last.cols

\* the width of column c as C1 gives it
ColumnWidth(c) ==
    MaxOver({last.lens[i + 1] : i \in {k \in 0..(last.n - 1) : k % last.cols = c}})

FootprintW == SumSeq(last.drawn_w) + last.spacing * (last.cols - 1)

FootprintH == SumSeq(last.drawn_h) + last.spacing * (Max(PopulatedRows, 1) - 1)

(***************************************************************************)
(* C1: for a grid of text cells of natural widths w_0..w_{n-1} the width   *)
(* of column c is the maximum w_i over the cells with i % cols = c, every  *)
(* populated row has height 1, and the footprint folded into the enclosing *)
(* scope is sum of column widths + spacing*(cols-1) wide and sum of row    *)
(* heights + spacing*(max(rows,1)-1) high.                                 *)
(***************************************************************************)
C1_GridFootprint ==
    TextOnly
    => /\ Len(last.drawn_w) = last.cols
       /\ \A c \in 0..(last.cols - 1) : last.drawn_w[c + 1] = ColumnWidth(c)
       /\ Len(last.drawn_h) = Max(PopulatedRows, 1)
       /\ \A r \in 1..PopulatedRows : last.drawn_h[r] = 1
       /\ Top.items = <<<<FootprintW, FootprintH>>>>
       /\ last.after.max_x = last.before.cursor_x + FootprintW
       /\ last.after.max_y = last.before.cursor_y + FootprintH
       /\ last.after.cursor_y
            = last.before.cursor_y + FootprintH + last.before.spacing

\* cols = 2, spacing = 1, widths [3, 5, 2, 7]: columns [3, 7], footprint 11 by 3
C1_Witness ==
    /\ TextOnly
    /\ last.cols = 2 /\ last.spacing = 1
    /\ last.lens = <<3, 5, 2, 7>>
    /\ last.drawn_w = <<3, 7>>
    /\ last.drawn_h = <<1, 1>>
    /\ Top.items = <<<<11, 3>>>>

(***************************************************************************)
(* C2: for a grid whose cells hold leaves, vertical/horizontal scopes and  *)
(* frames, the column widths and row heights at the end of the draw pass   *)
(* equal the ones the measure pass measured.                               *)
(***************************************************************************)
C2_DrawEqualsMeasure ==
    (GridRan /\ last.ops \subseteq {"label", "vertical", "horizontal", "frame"})
    => /\ last.drawn_w = last.measured_w
       /\ last.drawn_h = last.measured_h

(***************************************************************************)
(* C3: the character grid at the end of the measure pass of grid() is the  *)
(* character grid grid() was entered with, for cells that hold labels,     *)
(* frames, nested scopes and nested grid() calls.                          *)
(***************************************************************************)
C3_MeasureDrawsNothing ==
    (GridRan /\ last.ops \subseteq {"label", "vertical", "horizontal", "frame", "grid"})
    => last.measured_cells = last.was

(***************************************************************************)
(* The scopes, as the claims describe them.                                *)
(***************************************************************************)
ItemWidths(items) == [i \in 1..Len(items) |-> items[i][1]]

ItemHeights(items) == [i \in 1..Len(items) |-> items[i][2]]

MaxSeq(s) == MaxOver({s[i] : i \in 1..Len(s)})

\* a vertical or horizontal scope that placed at least one item has returned
ScopeFolded ==
    /\ last.op = "fold" /\ last.kind = "child" /\ abort = "none"
    /\ ~last.scope.cleared
    /\ Len(last.scope.items) >= 1

\* main-axis size of n items with the spacing between them
MainSize(sizes, spacing) == SumSeq(sizes) + spacing * (Len(sizes) - 1)

(***************************************************************************)
(* C4: a vertical scope of items of heights h_1..h_n and widths w_1..w_n   *)
(* with spacing s folds into its parent with height h_1+...+h_n + s*(n-1)  *)
(* and width max(w_i); a horizontal scope with width sum + s*(n-1) and     *)
(* height max(h_i).  The spacing after the last item is not counted.       *)
(***************************************************************************)
C4_ScopeFold ==
    ScopeFolded
    => LET items == last.scope.items
           s == last.scope.ui.spacing
           w == IF last.scope.ui.layout = "Vertical"
                THEN MaxSeq(ItemWidths(items))
                ELSE MainSize(ItemWidths(items), s)
           h == IF last.scope.ui.layout = "Vertical"
                THEN MainSize(ItemHeights(items), s)
                ELSE MaxSeq(ItemHeights(items))
       IN  /\ last.used_w = w
           /\ last.used_h = h
           /\ Top.items[Len(Top.items)] = <<w, h>>
           /\ last.after.max_x >= last.parent.cursor_x + w
           /\ last.after.max_y >= last.parent.cursor_y + h

\* two items of height 1 and different widths in a vertical scope of spacing 1
C4_Witness ==
    /\ ScopeFolded
    /\ last.scope.ui.layout = "Vertical" /\ last.scope.ui.spacing = 1
    /\ Len(last.scope.items) = 2
    /\ last.scope.items[1][1] < last.scope.items[2][1]
    /\ last.used_h = 3
    /\ last.used_w = last.scope.items[2][1]

\* the budget of a scope on its main axis
MainBudget(ui, layout) ==
    IF layout = "Vertical" THEN ui.available_y ELSE ui.available_x

\* the size of an item on the main axis
MainAxis(item, layout) == IF layout = "Vertical" THEN item[2] ELSE item[1]

\* one step of the scope at depth d of the stack
BudgetStep(d) ==
    LET ui == stack[d].ui
        after == stack'[d].ui
        items == stack[d].items
        placed == stack'[d].items
    IN  /\ ~ui.available_x.some => ~after.available_x.some
        /\ ~ui.available_y.some => ~after.available_y.some
        /\ (ui.available_x.some /\ after.available_x.some)
              => after.available_x.val <= ui.available_x.val
        /\ (ui.available_y.some /\ after.available_y.some)
              => after.available_y.val <= ui.available_y.val
        /\ (/\ Len(placed) = Len(items) + 1
            /\ MainBudget(ui, ui.layout).some
            /\ MainAxis(placed[Len(placed)], ui.layout)
                  > MainBudget(ui, ui.layout).val)
              => ~MainBudget(after, ui.layout).some

(***************************************************************************)
(* C5: in every step of a scope, an item larger on the main axis than the  *)
(* scope's finite remaining budget turns that budget into None, a budget   *)
(* that is None stays None, and a finite budget never increases.           *)
(***************************************************************************)
C5_Budgets ==
    [][\A d \in 1..Min(Len(stack), Len(stack')) : BudgetStep(d)]_vars

\* space(amount) exceeded the finite budget of a vertical scope
C5_Witness ==
    /\ last.op = "space" /\ abort = "none"
    /\ last.before.layout = "Vertical"
    /\ last.before.available_y.some
    /\ last.before.available_y.val >= 1
    /\ last.amount > last.before.available_y.val
    /\ ~Top.ui.available_y.some

(***************************************************************************)
(* C6: a render pass never aborts: no operation underflows a subtraction   *)
(* or divides by zero.                                                     *)
(***************************************************************************)
C6_NeverAborts == abort = "none"

(***************************************************************************)
(* The leaves, as the claims describe them.  The field of the last leaf    *)
(* call has w cells on the row of the cursor; the text shows its first     *)
(* min(len, w) characters.                                                 *)
(***************************************************************************)
LeafW == FieldWidth(last.text, last.width)

LeafVisible == Min(Len(last.text), LeafW)

\* where the claims place the field of the last label_align call
AlignedFieldStart ==
    IF last.outer = "Right" /\ last.before.available_x.some
    THEN last.before.cursor_x + Max(last.before.available_x.val - LeafW, 0)
    ELSE last.before.cursor_x

\* the offset in its field of the first character shown
TextOffset(inner) == IF inner = "Left" THEN 0 ELSE LeafW - LeafVisible

\* what the field cell at offset i shows: a character of the text, or a blank
FieldShows(inner, i) ==
    IF i >= TextOffset(inner) /\ i < TextOffset(inner) + LeafVisible
    THEN last.text[i - TextOffset(inner) + 1]
    ELSE Blank

DrawnLeaf(op) == last.op = op /\ last.before.draw

(***************************************************************************)
(* C7: label_align starts its field at cursor_x + max(B - w, 0) when the   *)
(* x budget is a known B and the outer alignment is Right, at cursor_x     *)
(* otherwise; the visible text sits flush to the start of that field       *)
(* (inner Left) or flush to its end (inner Right).                         *)
(***************************************************************************)
C7_LabelAlignPlacesText ==
    DrawnLeaf("label_align")
    => \A j \in 0..(LeafVisible - 1) :
          LET x == AlignedFieldStart + TextOffset(last.inner) + j
          IN  InBounds(x, last.before.cursor_y)
              => At(cells, x, last.before.cursor_y) = last.text[j + 1]

\* label_align("a", Some(5), Right, Right) with budget 10 at cursor (0, 0)
\* wrote its character at x = 9
C7_Witness ==
    /\ DrawnLeaf("label_align")
    /\ last.text = TextOf(1) /\ last.width = Some(5)
    /\ last.inner = "Right" /\ last.outer = "Right"
    /\ last.before.available_x = Some(10)
    /\ last.before.cursor_x = 0 /\ last.before.cursor_y = 0
    /\ At(cells, 9, 0) = "a"
    /\ At(last.was, 9, 0) = Blank

(***************************************************************************)
(* C8: after label_align on a draw-enabled scope every cell of the field   *)
(* (the w cells from the outer-aligned start on) that is on the grid and   *)
(* not covered by the text is blank.                                       *)
(***************************************************************************)
C8_AlignedFieldBlanked ==
    DrawnLeaf("label_align")
    => \A i \in 0..(LeafW - 1) :
          InBounds(AlignedFieldStart + i, last.before.cursor_y)
          => (FieldShows(last.inner, i) = Blank
              => At(cells, AlignedFieldStart + i, last.before.cursor_y) = Blank)

(***************************************************************************)
(* C9: label shows, in the w cells from the cursor on, the first w         *)
(* characters of a longer text, and a shorter text flush to the start      *)
(* (Left) or to the end (Right) of the field with every other field cell   *)
(* blank.                                                                  *)
(***************************************************************************)
C9_LabelField ==
    DrawnLeaf("label")
    => \A i \in 0..(LeafW - 1) :
          InBounds(last.before.cursor_x + i, last.before.cursor_y)
          => At(cells, last.before.cursor_x + i, last.before.cursor_y)
                = FieldShows(last.inner, i)

\* a text shorter than its field, right-aligned over a stale character
C9_Witness ==
    /\ DrawnLeaf("label")
    /\ last.inner = "Right"
    /\ Len(last.text) >= 1 /\ Len(last.text) < LeafW
    /\ FieldOnGrid(last.before.cursor_x, last.before.cursor_y, LeafW)
    /\ At(last.was, last.before.cursor_x, last.before.cursor_y) = Stale
    /\ At(cells, last.before.cursor_x, last.before.cursor_y) = Blank

(***************************************************************************)
(* The writers of ScreenBuffer, as the claims describe them.  The last     *)
(* call wrote at (last.x, last.y) on the buffer last.was.                  *)
(***************************************************************************)
\* every cell of the grid outside the cells (x .. x + width - 1, y) is as it was
OutsideKept(x, y, width) ==
    \A px \in 0..(ScreenW - 1), py \in 0..(ScreenH - 1) :
        (py # y \/ px < x \/ px >= x + width)
            => At(cells, px, py) = At(last.was, px, py)

WroteI64 == last.op = "write_i64_right" /\ ~last.again

\* the number of digits of |value| that fit the field
I64Shown == Min(NumDigits(Abs(last.value)), last.width)

\* what C11 puts at offset i of the field
I64FieldShows(i) ==
    IF i >= last.width - I64Shown
    THEN DigitChar((Abs(last.value) \div Pow10(last.width - 1 - i)) % 10)
    ELSE IF i = last.width - I64Shown - 1 /\ last.value < 0 THEN "-"
    ELSE Blank

(***************************************************************************)
(* C11: for a non-zero value write_i64_right leaves the field holding the  *)
(* digits of |value| right-justified, the most significant ones dropped if *)
(* they do not fit, a '-' immediately left of the leftmost digit written   *)
(* iff the value is negative and a field cell remains there, and blanks in *)
(* all other field cells.                                                  *)
(***************************************************************************)
C11_I64Field ==
    (WroteI64 /\ last.value # 0)
    => /\ \A i \in 0..(last.width - 1) :
             InBounds(last.x + i, last.y)
             => At(cells, last.x + i, last.y) = I64FieldShows(i)
       /\ OutsideKept(last.x, last.y, last.width)

\* -12 written into a field of 4 cells that held a stale character
C11_Witness ==
    /\ WroteI64
    /\ last.value = -12 /\ last.width = 4
    /\ FieldOnGrid(last.x, last.y, last.width)
    /\ At(last.was, last.x, last.y) = Stale
    /\ FieldText(cells, last.x, last.y, last.width) = <<" ", "-", "1", "2">>

(***************************************************************************)
(* C12: write_i64_right of 0 into a field of width >= 1 renders width - 1  *)
(* blanks and a single '0' at x + width - 1, whatever the field held.      *)
(***************************************************************************)
C12_I64Zero ==
    (WroteI64 /\ last.value = 0 /\ last.width >= 1)
    => /\ \A i \in 0..(last.width - 1) :
             InBounds(last.x + i, last.y)
             => At(cells, last.x + i, last.y)
                   = IF i = last.width - 1 THEN "0" ELSE Blank
       /\ OutsideKept(last.x, last.y, last.width)

\* 0 written into a field of 3 cells whose first cell held a stale character
C12_Witness ==
    /\ WroteI64
    /\ last.value = 0 /\ last.width = 3
    /\ FieldOnGrid(last.x, last.y, last.width)
    /\ At(last.was, last.x, last.y) = Stale
    /\ FieldText(cells, last.x, last.y, last.width) = <<" ", " ", "0">>

(***************************************************************************)
(* C13: write_i64_right and write_f64_right called a second time with the  *)
(* same arguments leave the grid the first call left.                      *)
(***************************************************************************)
C13_WritersIdempotent ==
    (last.op \in {"write_i64_right", "write_f64_right"} /\ last.again)
    => cells = last.was

\* write_i64_right(5) repeated on a field of 3 cells that shows "  5"
C13_Witness ==
    /\ last.op = "write_i64_right" /\ last.again
    /\ last.value = 5 /\ last.width = 3
    /\ FieldOnGrid(last.x, last.y, last.width)
    /\ FieldText(last.was, last.x, last.y, last.width) = <<" ", " ", "5">>
    /\ FieldText(cells, last.x, last.y, last.width) = <<" ", " ", "5">>

(***************************************************************************)
(* C14: put_char(x, y, ch) in bounds leaves ch in cell (x, y) and every    *)
(* other cell as it was; out of bounds it leaves the whole grid as it was  *)
(* and signals nothing.                                                    *)
(***************************************************************************)
C14_PutChar ==
    last.op = "put_char"
    => /\ abort = "none"
       /\ IF last.x < ScreenW /\ last.y < ScreenH
          THEN /\ At(cells, last.x, last.y) = last.ch
               /\ OutsideKept(last.x, last.y, 1)
          ELSE cells = last.was

\* 'a' put in bounds on a grid that keeps its stale character elsewhere
C14_Witness ==
    /\ last.op = "put_char" /\ last.ch = "a"
    /\ InBounds(last.x, last.y)
    /\ At(cells, last.x, last.y) = "a"
    /\ \E k \in DOMAIN cells : cells[k] = Stale

\* the grid after a stroke of len cells of ch from (x, y) on, dx = 1 along the
\* row and dx = 0 along the column, as C15 gives it
Stroked(px, py, dx) ==
    IF \E i \in 0..(last.len - 1) :
          px = last.x + i * dx /\ py = last.y + i * (1 - dx)
    THEN last.ch
    ELSE At(last.was, px, py)

(***************************************************************************)
(* C15: draw_hline sets every cell (x + i, y), 0 <= i < len, that lies     *)
(* inside the grid to ch, draw_vline every cell (x, y + i), and no other   *)
(* cell changes.                                                           *)
(***************************************************************************)
C15_StrokesClipPerCell ==
    /\ last.op = "draw_hline"
         => \A px \in 0..(ScreenW - 1), py \in 0..(ScreenH - 1) :
               At(cells, px, py) = Stroked(px, py, 1)
    /\ last.op = "draw_vline"
         => \A px \in 0..(ScreenW - 1), py \in 0..(ScreenH - 1) :
               At(cells, px, py) = Stroked(px, py, 0)

(***************************************************************************)
(* C16: draw_frame(x, y, w, h) with w < 2 or h < 2 completes with no       *)
(* arithmetic underflow.                                                   *)
(***************************************************************************)
C16_SmallFrameCompletes ==
    (last.op = "draw_frame" /\ (last.w < 2 \/ last.h < 2))
    => abort = "none"

(***************************************************************************)
(* The frame, as C17 describes it.                                         *)
(***************************************************************************)
\* the budget of the child of a frame on one axis, from the parent's budget B
ChildBudget(B, padding) ==
    IF B.some /\ B.val - 2 * padding > 0 THEN Some(B.val - 2 * padding) ELSE None

\* the box size on one axis, from the child's extent, the frame origin and the
\* parent's budget B
BoxSize(extent, origin, padding, B, stretch) ==
    IF stretch = "Full"
    THEN Max((extent - origin) + padding, IF B.some THEN B.val ELSE 0)
    ELSE (extent - origin) + padding

FrameOpened == last.op = "open" /\ last.kind = "frame"

FrameFolded == last.op = "fold" /\ last.kind = "frame" /\ abort = "none"

BoxW ==
    BoxSize(last.scope.ui.max_x, last.parent.cursor_x, last.scope.padding,
            last.parent.available_x, last.scope.stretch)

BoxH ==
    BoxSize(last.scope.ui.max_y, last.parent.cursor_y, last.scope.padding,
            last.parent.available_y, last.scope.stretch)

(***************************************************************************)
(* C17: frame gives its child, per axis, the budget B - 2*padding when the *)
(* parent's budget B is finite and B - 2*padding > 0, and None otherwise;  *)
(* after f returns the box size per axis is (child's extent - frame        *)
(* origin) + padding, raised to the parent's budget (0 if None) when       *)
(* stretch = Full, and the parent is advanced by that size once.           *)
(***************************************************************************)
C17_Frame ==
    /\ FrameOpened
         => /\ Top.ui.available_x = ChildBudget(last.before.available_x, Top.padding)
            /\ Top.ui.available_y = ChildBudget(last.before.available_y, Top.padding)
    /\ FrameFolded
         => /\ last.used_w = BoxW
            /\ last.used_h = BoxH
            /\ Top.items[Len(Top.items)] = <<BoxW, BoxH>>
            /\ last.after.max_x = Max(last.parent.max_x, last.parent.cursor_x + BoxW)
            /\ last.after.max_y = Max(last.parent.max_y, last.parent.cursor_y + BoxH)
            /\ IF last.parent.layout = "Vertical"
               THEN /\ last.after.cursor_x = last.parent.cursor_x
                    /\ last.after.cursor_y
                          = last.parent.cursor_y + BoxH + last.parent.spacing
               ELSE /\ last.after.cursor_y = last.parent.cursor_y
                    /\ last.after.cursor_x
                          = last.parent.cursor_x + BoxW + last.parent.spacing

\* a Full frame of padding 1 around one label, stretched to the budget of its
\* parent
C17_Witness ==
    /\ FrameFolded
    /\ last.scope.stretch = "Full" /\ last.scope.padding = 1
    /\ Len(last.scope.items) = 1
    /\ last.parent.available_x.some
    /\ last.scope.ui.available_x = Some(last.parent.available_x.val - 2)
    /\ (last.scope.ui.max_x - last.parent.cursor_x) + 1 < last.parent.available_x.val
    /\ last.used_w = last.parent.available_x.val

\* one step of the extents of the scope at depth d of the stack
ExtentStep(d) ==
    /\ stack'[d].ui.max_x >= stack[d].ui.max_x
    /\ stack'[d].ui.max_y >= stack[d].ui.max_y
    /\ ~stack'[d].cleared
         => /\ stack'[d].ui.max_x >= stack'[d].start_x
            /\ stack'[d].ui.max_y >= stack'[d].start_y

(***************************************************************************)
(* C18: over space, leaf, vertical/horizontal, frame and grid operations   *)
(* on a scope max_x and max_y never decrease, and they are at least the    *)
(* starting cursor position of the scope.                                  *)
(***************************************************************************)
C18_ExtentsGrow ==
    [][last'.op # "clear"
         => \A d \in 1..Min(Len(stack), Len(stack')) : ExtentStep(d)]_vars

\* a narrow item placed after a wide one in a vertical scope
C18_Witness ==
    /\ abort = "none" /\ ~Top.cleared
    /\ Top.ui.layout = "Vertical"
    /\ Len(Top.items) = 2
    /\ Top.items[1][1] > Top.items[2][1]
    /\ Top.ui.max_x = Top.start_x + Top.items[1][1]

(***************************************************************************)
(* C19: write_str(x, y, text) writes the i-th character of text to cell    *)
(* (x + i, y) for exactly the i with x + i < width, and only when          *)
(* y < height; it does not wrap to another row and every cell it does not  *)
(* write keeps its content.                                                *)
(***************************************************************************)
C19_WriteStr ==
    last.op = "write_str"
    => \A px \in 0..(ScreenW - 1), py \in 0..(ScreenH - 1) :
          At(cells, px, py)
             = IF py = last.y /\ px >= last.x /\ px - last.x < Len(last.text)
               THEN last.text[px - last.x + 1]
               ELSE At(last.was, px, py)

\* three characters written two cells before the right edge of row 0: two are
\* shown, the third is not put on row 1
C19_Witness ==
    /\ last.op = "write_str"
    /\ last.x = ScreenW - 2 /\ last.y = 0 /\ Len(last.text) = 3
    /\ At(cells, ScreenW - 2, 0) = last.text[1]
    /\ At(cells, ScreenW - 1, 0) = last.text[2]
    /\ At(cells, 0, 1) = Blank

\* the k-th cell() call of a pass, as its log holds it
CellAssigned(log, k, draw) ==
    /\ log[k].idx = k - 1
    /\ log[k].col = (k - 1) % last.cols
    /\ log[k].row = (k - 1) \div last.cols
    /\ log[k].draw = draw

(***************************************************************************)
(* C20: grid() runs its closure twice: a measure pass with cell index 0,   *)
(* draw disabled and zero vectors, then a draw pass with the cell index    *)
(* back at 0, draw enabled and the vectors the measure pass produced; in   *)
(* each pass the k-th cell() call gets row k / cols and col k % cols; the  *)
(* enclosing scope is advanced by the footprint once, after the draw pass. *)
(***************************************************************************)
C20_TwoPasses ==
    (GridRan /\ last.cols >= 1)
    => /\ Len(last.measure_log) = last.n
       /\ Len(last.draw_log) = last.n
       /\ \A k \in 1..last.n :
             /\ CellAssigned(last.measure_log, k, FALSE)
             /\ CellAssigned(last.draw_log, k, TRUE)
       /\ last.n >= 1
            => /\ last.measure_log[1].widths = [c \in 1..last.cols |-> 0]
               /\ last.measure_log[1].heights = <<0>>
               /\ last.draw_log[1].widths = last.measured_w
               /\ last.draw_log[1].heights = last.measured_h
       /\ Top.items = <<<<FootprintW, FootprintH>>>>
       /\ last.after.cursor_x = last.before.cursor_x
       /\ last.after.cursor_y
            = last.before.cursor_y + FootprintH + last.before.spacing

\* four cells on two columns: the last one is cell 3 at row 1, col 1 in both
\* passes, and the draw pass starts from the measured vectors
C20_Witness ==
    /\ GridRan
    /\ last.cols = 2 /\ last.n = 4
    /\ last.measure_log[4].row = 1 /\ last.measure_log[4].col = 1
    /\ last.draw_log[4].row = 1 /\ last.draw_log[4].col = 1
    /\ last.draw_log[1].widths = last.measured_w
    /\ SumSeq(last.measured_w) > 0

(***************************************************************************)
(* The leaves and space, as C21 describes them.  The call was made on the  *)
(* scope on top of the stack, whose Ui was last.before.                    *)
(***************************************************************************)
LeafPlaced ==
    /\ last.op \in {"label", "label_align", "number_i64", "number_f64"}
    /\ abort = "none"

\* the scope moved by main on its main axis and not at all on the other one
MainAxisOnly(main) ==
    IF last.before.layout = "Vertical"
    THEN /\ Top.ui.cursor_y = last.before.cursor_y + main + last.before.spacing
         /\ Top.ui.cursor_x = last.before.cursor_x
         /\ Top.ui.available_x = last.before.available_x
    ELSE /\ Top.ui.cursor_x = last.before.cursor_x + main + last.before.spacing
         /\ Top.ui.cursor_y = last.before.cursor_y
         /\ Top.ui.available_y = last.before.available_y

(***************************************************************************)
(* C21: a leaf has a footprint of width w and height 1 and advances only   *)
(* the main axis: cursor_y by 1 + spacing in a vertical scope, cursor_x by *)
(* w + spacing in a horizontal one, the other cursor and its budget        *)
(* unchanged; space(amount) advances the main axis by amount + spacing and *)
(* writes no cell.                                                         *)
(***************************************************************************)
C21_LeafAdvance ==
    /\ LeafPlaced
         => /\ Top.ui.max_x >= last.before.cursor_x + LeafW
            /\ Top.ui.max_y >= last.before.cursor_y + 1
            /\ MainAxisOnly(IF last.before.layout = "Vertical" THEN 1 ELSE LeafW)
    /\ (last.op = "space" /\ abort = "none")
         => /\ MainAxisOnly(last.amount)
            /\ cells = last.was

\* number_f64 of width 4 in a horizontal scope of spacing 1 with a finite budget
C21_Witness ==
    /\ LeafPlaced
    /\ last.op = "number_f64" /\ LeafW = 4
    /\ last.before.layout = "Horizontal" /\ last.before.spacing = 1
    /\ last.before.available_y.some
    /\ Top.ui.cursor_x = last.before.cursor_x + 5
    /\ Top.ui.cursor_y = last.before.cursor_y

WroteWide == last.op = "write_i64_right_wide"

(***************************************************************************)
(* C22: for every i64, i64::MIN included, write_i64_right strips the sign  *)
(* without an arithmetic overflow and renders the low-order digits of the  *)
(* absolute value.                                                         *)
(***************************************************************************)
C22_I64FullRange ==
    (WroteWide /\ last.value.mag # <<>>)
    => /\ abort = "none"
       /\ \A i \in 0..(last.width - 1) :
             (/\ InBounds(last.x + i, last.y)
              /\ last.width - 1 - i < Len(last.value.mag))
             => At(cells, last.x + i, last.y)
                   = DigitChar(last.value.mag[Len(last.value.mag)
                                                 - (last.width - 1 - i)])

\* the field of the last call of a numeric writer or number leaf
NumberField ==
    IF last.op \in {"number_i64", "number_f64"}
    THEN [x |-> last.before.cursor_x, y |-> last.before.cursor_y, width |-> LeafW]
    ELSE [x |-> last.x, y |-> last.y, width |-> last.width]

=============================================================================
